---- MODULE Spec2Model ----
(***************************************************************************)
(* 10x15cm Photo Formatter: the batch driver (App.start / stop /           *)
(* poll_worker / process_all) and the geometry helpers of                  *)
(* src/photo_formatter.py and of its older sibling                         *)
(* src/10x15_Photo_Formatter.py.  The variable `script` says which of the  *)
(* two scripts is running; where they differ the definitions carry the     *)
(* suffix _legacy for 10x15_Photo_Formatter.py.                            *)
(*                                                                         *)
(* Text is modelled as sequences of one-character strings wherever the     *)
(* code parses it (strip, int, Path); file names are TLA+ strings built    *)
(* by concatenation exactly as the f-strings build them.                   *)
(***************************************************************************)
EXTENDS Integers, Sequences, FiniteSets, TLC

(* ------------------------------ bounds -------------------------------- *)

\* Longest directory listing (entries rglob yields) drawn in Init.
MaxFiles == 2

\* Successful starts per behaviour (a run is one worker thread).
MaxRuns == 1

(* ------------------------- program constants -------------------------- *)

DPI_MIN == 72

DPI_MAX == 1200

DPI_MAX_legacy == 600

SUPPORTED_EXTS == {".jpg", ".jpeg", ".png", ".heic", ".heif", ".webp"}

SUPPORTED_EXTS_legacy == {".jpg", ".jpeg", ".png", ".heic", ".heif"}

HEIF_EXTS == {".heic", ".heif"}

Scripts == {"photo_formatter", "10x15_Photo_Formatter"}

(* ------------------------------ text ---------------------------------- *)

\* str.lower() on the suffixes that occur in the catalogue.
lower(s) ==
    CASE s = ".HEIC" -> ".heic"
      [] s = ".JPG"  -> ".jpg"
      [] OTHER       -> s

RECURSIVE lstrip(_)
lstrip(s) == IF s # <<>> /\ Head(s) = " " THEN lstrip(Tail(s)) ELSE s

RECURSIVE rstrip(_)
rstrip(s) ==
    IF s # <<>> /\ s[Len(s)] = " " THEN rstrip(SubSeq(s, 1, Len(s) - 1)) ELSE s

\* str.strip()
strip(s) == rstrip(lstrip(s))

DigitValue(c) ==
    CASE c = "0" -> 0 [] c = "1" -> 1 [] c = "2" -> 2 [] c = "3" -> 3
      [] c = "4" -> 4 [] c = "5" -> 5 [] c = "6" -> 6 [] c = "7" -> 7
      [] c = "8" -> 8 [] c = "9" -> 9 [] OTHER -> -1

RECURSIVE digits_value(_, _)
digits_value(s, acc) ==
    IF s = <<>> THEN acc
    ELSE IF DigitValue(Head(s)) < 0 THEN -1
    ELSE digits_value(Tail(s), 10 * acc + DigitValue(Head(s)))

\* int(text): [ok |-> FALSE] stands for ValueError.
int_parse(text) ==
    LET s    == strip(text)
        neg  == s # <<>> /\ Head(s) = "-"
        body == IF s # <<>> /\ Head(s) \in {"-", "+"} THEN Tail(s) ELSE s
        v    == digits_value(body, 0)
    IN  IF body = <<>> \/ v < 0
        THEN [ok |-> FALSE, val |-> 0]
        ELSE [ok |-> TRUE, val |-> IF neg THEN 0 - v ELSE v]

(* ---------------------------- file system ----------------------------- *)

\* Path(text): the empty string is the current directory.
Path(s) == IF s = <<>> THEN <<".">> ELSE s

PhotosDir == <<"/", "p">>

CurrentDir == <<".">>

\* Directories that exist when the program starts.
exists_dir(p) == p \in {PhotosDir, CurrentDir}

\* What the user can have typed into the input-folder entry.
InputTexts == { <<>>, <<" ">>, <<"/", "p">>, <<" ", "/", "p">>, <<"/", "m">> }

\* What the user can have typed into the DPI spinbox.
DpiTexts ==
    { <<" ", "3", "0", "0", " ">>, <<"7", "1">>, <<"6", "0", "1">>,
      <<"1", "2", "0", "1">>, <<"a", "b">>, <<>> }

\* The directory entries a listing is drawn from.  decodable = FALSE is a
\* corrupted or truncated image (Image.open or the first load raises);
\* encodable = FALSE is a picture canvas.save raises on after it has opened
\* the output file (an EXIF block too long for a JPEG segment, say).
\* w, h are the stored pixel dimensions and orientation the stored EXIF
\* Orientation tag (1 = upright, 6 = to be turned by a quarter).
File(stem, suffix, decodable, encodable, w, h, orientation) ==
    [stem |-> stem, suffix |-> suffix, decodable |-> decodable,
     encodable |-> encodable, w |-> w, h |-> h, orientation |-> orientation]

Catalogue ==
    { File("a", ".jpg",  TRUE,  TRUE,  1200, 800, 1),
      File("a", ".png",  TRUE,  TRUE,  1200, 800, 6),
      File("a", ".webp", TRUE,  TRUE,  800, 800, 1),
      File("c", ".HEIC", FALSE, FALSE, 0, 0, 1),
      File("e", ".heif", TRUE,  FALSE, 1200, 800, 1) }

\* f.name
name(f) == f.stem \o f.suffix

\* Listings without repetition, in any traversal order, up to MaxFiles long.
Listings ==
    { s \in UNION { [1..n -> Catalogue] : n \in 0..MaxFiles } :
        \A i, j \in DOMAIN s : i # j => s[i] # s[j] }

\* A file found in the destination before the first run.
PreExisting ==
    [src |-> "pre", complete |-> TRUE, w |-> 1772, h |-> 1181, dpi |-> 300,
     img |-> <<1200, 800>>, stem |-> "a_10x15", orientation |-> 1]

NoFiles == [n \in {} |-> PreExisting]

(* ------------------------------ geometry ------------------------------ *)

\* Python 3 round(): nearest integer, ties to even, of num / den.
round(num, den) ==
    LET q == num \div den
        r == num % den
    IN  IF 2 * r < den THEN q
        ELSE IF 2 * r > den THEN q + 1
        ELSE IF q % 2 = 0 THEN q ELSE q + 1

\* Mutant of cm_to_px: the pixel count kept in ten bits.
cm_to_px_ten_bits(cm, dpi) == round(cm * dpi * 100, 254) % 1024

\* Mutant of cm_to_px: int() alone, which cuts the fraction off.
cm_to_px_truncated(cm, dpi) == (cm * dpi * 100) \div 254

\* cm / 2.54 * dpi = cm * dpi * 100 / 254
cm_to_px(cm, dpi) == round(cm * dpi * 100, 254)

\* Mutant of compute_target_canvas: a square picture gets the upright canvas.
compute_target_canvas_strict(img_w, img_h, dpi) ==
    IF img_w > img_h
    THEN <<cm_to_px(15, dpi), cm_to_px(10, dpi)>>
    ELSE <<cm_to_px(10, dpi), cm_to_px(15, dpi)>>

compute_target_canvas(img_w, img_h, dpi) ==
    IF img_w >= img_h
    THEN <<cm_to_px(15, dpi), cm_to_px(10, dpi)>>
    ELSE <<cm_to_px(10, dpi), cm_to_px(15, dpi)>>

\* Image.open(f): the picture as stored.
open_image(f) == [w |-> f.w, h |-> f.h, orientation |-> f.orientation]

\* ImageOps.exif_transpose(img): the picture turned or mirrored as its
\* Orientation tag says (tags 5..8 swap width and height), the tag removed.
exif_transpose(img) ==
    IF img.orientation \in 5..8
    THEN [w |-> img.h, h |-> img.w, orientation |-> 1]
    ELSE [w |-> img.w, h |-> img.h, orientation |-> 1]

RECURSIVE gcd(_, _)
gcd(a, b) == IF b = 0 THEN a ELSE gcd(b, a % b)

RECURSIVE power_of_two(_)
power_of_two(n) == n = 1 \/ (n % 2 = 0 /\ power_of_two(n \div 2))

\* num / den is a binary fraction, which a float holds exactly.
float_exact(num, den) == power_of_two(den \div gcd(num, den))

\* floor(src * scale) for scale = num / den held in a float: the exact
\* quotient, or one less when scale had to be rounded, the exact product is
\* a whole number and the float product falls just short of it (slack = 1).
float_floor(src, num, den, slack) ==
    IF (src * num) % den = 0 /\ ~float_exact(num, den) /\ slack = 1
    THEN (src * num) \div den - 1
    ELSE (src * num) \div den

max(a, b) == IF a >= b THEN a ELSE b

\* Mutant of fit_with_letterbox: the scale is the larger of the two ratios,
\* so that the picture covers the canvas.
fit_with_letterbox_cover(src_w, src_h, target_w, target_h, slack) ==
    LET by_w  == target_w * src_h >= target_h * src_w
        num   == IF by_w THEN target_w ELSE target_h
        den   == IF by_w THEN src_w ELSE src_h
        new_w == max(1, float_floor(src_w, num, den, slack[1]))
        new_h == max(1, float_floor(src_h, num, den, slack[2]))
    IN  [canvas_w |-> target_w, canvas_h |-> target_h,
         new_w |-> new_w, new_h |-> new_h,
         off_x |-> (target_w - new_w) \div 2,
         off_y |-> (target_h - new_h) \div 2]

\* fit_with_letterbox on an image of src_w x src_h (after its own
\* exif_transpose): the canvas size, the resized size and the paste offsets.
\* scale = min(target_w / src_w, target_h / src_h).
fit_with_letterbox(src_w, src_h, target_w, target_h, slack) ==
    LET by_w  == target_w * src_h <= target_h * src_w
        num   == IF by_w THEN target_w ELSE target_h
        den   == IF by_w THEN src_w ELSE src_h
        new_w == max(1, float_floor(src_w, num, den, slack[1]))
        new_h == max(1, float_floor(src_h, num, den, slack[2]))
    IN  [canvas_w |-> target_w, canvas_h |-> target_h,
         new_w |-> new_w, new_h |-> new_h,
         off_x |-> (target_w - new_w) \div 2,
         off_y |-> (target_h - new_h) \div 2]

(* ------------------------------- state -------------------------------- *)

VARIABLES
    script,        \* which script runs
    heif_ok,       \* module global: pillow_heif was imported
    tree,          \* in_dir.rglob("*") of the photos directory, in order
    out_exists,    \* the output directory exists
    dest,          \* the output directory: file name -> what the file holds
    worker,        \* self.worker: "none" or "thread"
    alive,         \* number of worker threads that have not returned
    stop_flag,     \* self.stop_flag
    buttons,       \* states of start_btn, stop_btn, open_btn
    status_var,    \* self.status_var
    log,           \* rows of the log Treeview
    progress,      \* the Progressbar: maximum and value
    dialog,        \* the modal messagebox on screen, "none" if none
    polls,         \* pending root.after(poll_worker) callbacks
    pc,            \* where the worker is in process_all
    in_dir,        \* process_all's argument
    dpi,           \* process_all's argument
    files,         \* process_all's local list
    idx,           \* process_all's loop index
    stats,         \* process_all's counters
    opened,        \* indexes of files handed to Image.open in this run
    runs,          \* successful starts so far
    nested,        \* the output folder is a subfolder of the photos folder
    geom           \* the geometry call under test (GeomSpec); idle in Spec

vars == <<script, heif_ok, tree, out_exists, dest, worker, alive, stop_flag,
          buttons, status_var, log, progress, dialog, polls, pc, in_dir, dpi,
          files, idx, stats, opened, runs, nested, geom>>

fsVars == <<out_exists, dest>>

uiVars == <<buttons, status_var, log, progress>>

workerVars == <<pc, in_dir, dpi, files, idx, stats, opened>>

envVars == <<script, heif_ok, tree, nested, geom>>

Status(kind, ok, skip, err) ==
    [kind |-> kind, processed |-> ok, skipped |-> skip, errors |-> err]

Msg(kind) == Status(kind, 0, 0, 0)

ZeroStats == [ok |-> 0, skip |-> 0, err |-> 0]

\* toggle_controls(processing)
toggle_controls(processing) ==
    [start |-> IF processing THEN "disabled" ELSE "normal",
     stop  |-> IF processing THEN "normal" ELSE "disabled",
     open  |-> IF processing THEN "disabled" ELSE "normal"]

\* clear_log()
clear_log == <<>>

\* log_msg(msg)
log_msg(rows, status, f) == Append(rows, [status |-> status, file |-> name(f)])

\* self.worker and self.worker.is_alive()
worker_is_alive == worker = "thread" /\ alive > 0

Init ==
    /\ script \in Scripts
    /\ heif_ok \in BOOLEAN
    /\ tree \in Listings
    /\ \/ out_exists = FALSE /\ dest = NoFiles
       \/ out_exists = TRUE /\ dest = ("a_10x15.jpg" :> PreExisting)
    /\ worker = "none"
    /\ alive = 0
    /\ stop_flag = FALSE
    /\ buttons = [start |-> "normal", stop |-> "disabled", open |-> "disabled"]
    /\ status_var = Msg("Select")
    /\ log = <<>>
    /\ progress = [maximum |-> 100, value |-> 0]
    /\ dialog = "none"
    /\ polls = 0
    /\ pc = "none"
    /\ in_dir = <<>>
    /\ dpi = 0
    /\ files = <<>>
    /\ idx = 0
    /\ stats = ZeroStats
    /\ opened = {}
    /\ runs = 0
    /\ nested = FALSE
    /\ geom = [op |-> "idle"]

(* --------------------------- App.start ------------------------------- *)

\* photo_formatter.py: not in_dir.exists() or not self.input_dir.get().strip()
input_invalid(text) == ~exists_dir(Path(strip(text))) \/ strip(text) = <<>>

\* 10x15_Photo_Formatter.py: not in_dir.exists()
input_invalid_legacy(text) == ~exists_dir(Path(strip(text)))

InputInvalid(text) ==
    IF script = "photo_formatter" THEN input_invalid(text)
    ELSE input_invalid_legacy(text)

\* photo_formatter.py: int() raised, or not (72 <= dpi <= 1200)
dpi_invalid(text) ==
    LET r == int_parse(text)
    IN  ~r.ok \/ ~(DPI_MIN <= r.val /\ r.val <= DPI_MAX)

\* 10x15_Photo_Formatter.py: int() raised, or dpi < 72 or dpi > 600
dpi_invalid_legacy(text) ==
    LET r == int_parse(text)
    IN  ~r.ok \/ r.val < DPI_MIN \/ r.val > DPI_MAX_legacy

DpiInvalid(text) ==
    IF script = "photo_formatter" THEN dpi_invalid(text)
    ELSE dpi_invalid_legacy(text)

\* The main thread runs one handler at a time, and none while a modal
\* messagebox is up.
MainThreadFree == dialog = "none"

\* Mutant of start_busy: the is_alive() check is missing, so a start issued
\* while a worker runs goes through start()'s body.
start_busy_unguarded ==
    /\ MainThreadFree
    /\ worker_is_alive
    /\ out_exists' = TRUE
    /\ stop_flag' = FALSE
    /\ buttons' = toggle_controls(TRUE)
    /\ log' = clear_log
    /\ status_var' = Msg("Initializing")
    /\ alive' = alive + 1
    /\ polls' = polls + 1
    /\ UNCHANGED <<envVars, dest, worker, progress, dialog, workerVars, runs>>

\* start(): a worker is alive -> return.
start_busy ==
    /\ MainThreadFree
    /\ worker_is_alive
    /\ UNCHANGED vars

\* start(): the input folder is rejected.
start_bad_folder(itext) ==
    /\ MainThreadFree
    /\ ~worker_is_alive
    /\ InputInvalid(itext)
    /\ dialog' = "Please select a valid input folder."
    /\ UNCHANGED <<envVars, fsVars, worker, alive, stop_flag, uiVars, polls,
                   workerVars, runs>>

\* start(): the DPI is rejected.
start_bad_dpi(itext, dtext) ==
    /\ MainThreadFree
    /\ ~worker_is_alive
    /\ ~InputInvalid(itext)
    /\ DpiInvalid(dtext)
    /\ dialog' = "DPI must be between the bounds."
    /\ UNCHANGED <<envVars, fsVars, worker, alive, stop_flag, uiVars, polls,
                   workerVars, runs>>

\* start(): validation passed; the run begins.
start_run(itext, dtext) ==
    /\ MainThreadFree
    /\ ~worker_is_alive
    /\ ~InputInvalid(itext)
    /\ ~DpiInvalid(dtext)
    /\ runs < MaxRuns
    /\ out_exists' = TRUE                      \* out_dir.mkdir(exist_ok=True)
    /\ stop_flag' = FALSE
    /\ buttons' = toggle_controls(TRUE)
    /\ log' = clear_log
    /\ status_var' = Msg("Initializing")
    /\ worker' = "thread"
    /\ alive' = alive + 1                      \* self.worker.start()
    /\ pc' = "scan"
    /\ in_dir' = Path(strip(itext))
    /\ dpi' = int_parse(dtext).val
    /\ files' = <<>>
    /\ idx' = 0
    /\ stats' = ZeroStats
    /\ opened' = {}
    /\ polls' = polls + 1                      \* root.after(200, poll_worker)
    /\ runs' = runs + 1
    /\ UNCHANGED <<envVars, dest, progress, dialog>>

\* The user closes the messagebox; showerror returns and start() returns.
dismiss_dialog ==
    /\ dialog # "none"
    /\ dialog' = "none"
    /\ UNCHANGED <<envVars, fsVars, worker, alive, stop_flag, uiVars, polls,
                   workerVars, runs>>

(* ---------------------- App.stop / App.poll_worker -------------------- *)

stop ==
    /\ MainThreadFree
    /\ stop_flag' = TRUE
    /\ status_var' = Msg("Stopping")
    /\ UNCHANGED <<envVars, fsVars, worker, alive, buttons, log, progress,
                   dialog, polls, workerVars, runs>>

\* poll_worker(): the worker is alive -> poll again in 250 ms.
poll_worker_again ==
    /\ polls > 0
    /\ worker_is_alive
    /\ UNCHANGED vars

\* Mutant of poll_worker_idle: the else branch leaves the buttons alone.
poll_worker_idle_no_toggle ==
    /\ polls > 0
    /\ ~worker_is_alive
    /\ polls' = polls - 1
    /\ UNCHANGED <<envVars, fsVars, worker, alive, stop_flag, uiVars, dialog,
                   workerVars, runs>>

\* poll_worker(): the worker has returned -> controls back to idle.
poll_worker_idle ==
    /\ polls > 0
    /\ ~worker_is_alive
    /\ buttons' = toggle_controls(FALSE)
    /\ polls' = polls - 1
    /\ UNCHANGED <<envVars, fsVars, worker, alive, stop_flag, status_var, log,
                   progress, dialog, workerVars, runs>>

(* -------------------------- App.process_all --------------------------- *)

\* A file of the output folder as an enumeration of the photos folder meets
\* it: a .jpg that opens when it was written whole.
as_source(n) ==
    File(dest[n].stem, ".jpg", dest[n].complete, TRUE, dest[n].w, dest[n].h,
         dest[n].orientation)

\* The files of the output subfolder, one after the other.
RECURSIVE subfolder(_)
subfolder(names) ==
    IF names = {} THEN <<>>
    ELSE LET n == CHOOSE n \in names : TRUE
         IN  <<as_source(n)>> \o subfolder(names \ {n})

\* in_dir.rglob("*"): the photos directory's listing, followed, when the
\* output folder is its subfolder output_10x15_jpg, by what that holds now;
\* the current directory (the model's only other existing directory) holds
\* no pictures.
rglob(d) ==
    IF d = PhotosDir
    THEN tree \o (IF nested THEN subfolder(DOMAIN dest) ELSE <<>>)
    ELSE <<>>

supported(p) ==
    lower(p.suffix) \in
        (IF script = "photo_formatter" THEN SUPPORTED_EXTS ELSE SUPPORTED_EXTS_legacy)

\* Mutant of scan: the supported files, last listed first.
scan_backwards(d) ==
    LET found == SelectSeq(rglob(d), supported)
    IN  [i \in 1..Len(found) |-> found[Len(found) + 1 - i]]

\* files = [p for p in in_dir.rglob("*") if p.is_file() and p.suffix.lower()
\* in SUPPORTED_EXTS]; every catalogue entry is a regular file.
scan(d) == SelectSeq(rglob(d), supported)

total == Len(files)

\* Mutant of heif_skip: the suffix is compared without lower().
heif_skip_case_sensitive(f) == f.suffix \in HEIF_EXTS /\ ~heif_ok

\* f.suffix.lower() in (".heic", ".heif") and not heif_ok
heif_skip(f) == lower(f.suffix) \in HEIF_EXTS /\ ~heif_ok

\* out_dir / f"{base}_10x15.jpg"
first_name(base) == base \o "_10x15.jpg"

\* out_dir / f"{base}_10x15_{counter}.jpg"
numbered_name(base, counter) == base \o "_10x15_" \o ToString(counter) \o ".jpg"

\* while dest.exists(): dest = numbered name; counter += 1
RECURSIVE while_exists(_, _, _, _)
while_exists(dir, base, candidate, counter) ==
    IF candidate \in DOMAIN dir
    THEN while_exists(dir, base, numbered_name(base, counter), counter + 1)
    ELSE candidate

\* Mutant of unique_name: no probing, always the first candidate.
unique_name_unprobed(dir, base) == first_name(base)

\* The "Unique Filename" block: the path canvas.save is given.
unique_name(dir, base) == while_exists(dir, base, first_name(base), 1)

\* What canvas.save(dest) can do: write the whole file, or raise after it
\* created the file, which the imaging library then removes ("failed_absent")
\* or, when it is an older build or the removal is refused, leaves behind
\* truncated ("failed_partial").
SaveFailures == {"failed_absent", "failed_partial"}

\* Mutant of oriented: the size is read from the picture as stored.
oriented_as_stored(f) == open_image(f)

\* im = ImageOps.exif_transpose(im), on the picture just opened.
oriented(f) == exif_transpose(open_image(f))

\* The file canvas.save leaves at path n for source f: a JPEG of the canvas
\* size, tagged with the run's DPI; img is the size of the picture that
\* fit_with_letterbox scaled (after its own exif_transpose). The EXIF block
\* saved with it is that of the turned picture in photo_formatter.py and
\* that of the stored picture, Orientation tag included, in the other script.
Output(f, complete) ==
    LET im  == oriented(f)
        c   == compute_target_canvas(im.w, im.h, dpi)
        fit == exif_transpose(im)
    IN  [src |-> name(f), complete |-> complete, w |-> c[1], h |-> c[2],
         dpi |-> dpi, img |-> <<fit.w, fit.h>>,
         orientation |-> IF script = "photo_formatter" THEN im.orientation
                         ELSE f.orientation]

\* Path.stem of the path unique_name gives.
unique_stem(dir, base) ==
    IF unique_name(dir, base) = first_name(base)
    THEN base \o "_10x15"
    ELSE base \o "_10x15_" \o ToString(
             CHOOSE counter \in 1..(Cardinality(DOMAIN dir) + 1) :
                 numbered_name(base, counter) = unique_name(dir, base))

save(dir, n, f, outcome) ==
    LET stem == [stem |-> unique_stem(dir, f.stem)]
    IN  CASE outcome = "saved"          -> (n :> (stem @@ Output(f, TRUE))) @@ dir
          [] outcome = "failed_partial" -> (n :> (stem @@ Output(f, FALSE))) @@ dir
          [] OTHER                      -> dir

bump(field) == [stats EXCEPT ![field] = @ + 1]

\* The terminal summary photo_formatter.py writes after the loop.
final_status ==
    Status(IF ~stop_flag THEN "Done" ELSE "Stopped", stats.ok, stats.skip, stats.err)

\* Mutant of process_all_empty: the early return is missing, so the set-up
\* before the loop runs with total = 0.
process_all_empty_fallthrough ==
    /\ pc = "scan"
    /\ Len(scan(in_dir)) = 0
    /\ files' = scan(in_dir)
    /\ progress' = [maximum |-> 0, value |-> 0]
    /\ status_var' = Status("Found", 0, 0, 0)
    /\ stats' = ZeroStats
    /\ idx' = 1
    /\ pc' = "loop"
    /\ UNCHANGED <<envVars, fsVars, worker, alive, stop_flag, buttons, log,
                   dialog, polls, in_dir, dpi, opened, runs>>

\* process_all: enumeration found nothing.
process_all_empty ==
    /\ pc = "scan"
    /\ Len(scan(in_dir)) = 0
    /\ files' = scan(in_dir)
    /\ status_var' = Msg("No supported images found.")
    /\ pc' = "done"
    /\ alive' = alive - 1
    /\ UNCHANGED <<envVars, fsVars, worker, stop_flag, buttons, log, progress,
                   dialog, polls, in_dir, dpi, idx, stats, opened, runs>>

\* process_all: enumeration, then the set-up before the loop.
process_all_scan ==
    /\ pc = "scan"
    /\ Len(scan(in_dir)) > 0
    /\ files' = scan(in_dir)
    /\ progress' = [maximum |-> Len(scan(in_dir)), value |-> 0]
    /\ status_var' = Status("Found", Len(scan(in_dir)), 0, 0)
    /\ stats' = ZeroStats
    /\ idx' = 1
    /\ pc' = "loop"
    /\ UNCHANGED <<envVars, fsVars, worker, alive, stop_flag, buttons, log,
                   dialog, polls, in_dir, dpi, opened, runs>>

\* for idx, f in enumerate(files, 1): the iterator is exhausted.
process_all_exhausted ==
    /\ pc = "loop"
    /\ idx > total
    /\ pc' = "end"
    /\ UNCHANGED <<envVars, fsVars, worker, alive, stop_flag, uiVars, dialog,
                   polls, in_dir, dpi, files, idx, stats, opened, runs>>

\* Mutant of process_all_break: the cancel check is missing.
process_all_break_ignored ==
    /\ pc = "loop"
    /\ idx <= total
    /\ stop_flag
    /\ pc' = "file"
    /\ UNCHANGED <<envVars, fsVars, worker, alive, stop_flag, uiVars, dialog,
                   polls, in_dir, dpi, files, idx, stats, opened, runs>>

\* if self.stop_flag: break   (10x15_Photo_Formatter.py reports here)
process_all_break ==
    /\ pc = "loop"
    /\ idx <= total
    /\ stop_flag
    /\ status_var' =
         IF script = "photo_formatter" THEN status_var
         ELSE Status("Stopped", stats.ok, stats.skip, stats.err)
    /\ pc' = "end"
    /\ UNCHANGED <<envVars, fsVars, worker, alive, stop_flag, buttons, log,
                   progress, dialog, polls, in_dir, dpi, files, idx, stats,
                   opened, runs>>

\* The stop check passed: file idx is now being processed.
process_all_next ==
    /\ pc = "loop"
    /\ idx <= total
    /\ ~stop_flag
    /\ pc' = "file"
    /\ UNCHANGED <<envVars, fsVars, worker, alive, stop_flag, uiVars, dialog,
                   polls, in_dir, dpi, files, idx, stats, opened, runs>>

\* Mutant of process_all_skip: continue before the progress update.
process_all_skip_no_progress ==
    /\ pc = "file"
    /\ heif_skip(files[idx])
    /\ log' = log_msg(log, "SKIP", files[idx])
    /\ stats' = bump("skip")
    /\ idx' = idx + 1
    /\ pc' = "loop"
    /\ UNCHANGED <<envVars, fsVars, worker, alive, stop_flag, buttons, progress,
                   status_var, dialog, polls, in_dir, dpi, files, opened, runs>>

\* HEIC/HEIF without the codec: log, count, progress, continue.
process_all_skip ==
    /\ pc = "file"
    /\ heif_skip(files[idx])
    /\ log' = log_msg(log, "SKIP", files[idx])
    /\ stats' = bump("skip")
    /\ progress' = [progress EXCEPT !.value = idx]
    /\ idx' = idx + 1
    /\ pc' = "loop"
    /\ UNCHANGED <<envVars, fsVars, worker, alive, stop_flag, buttons,
                   status_var, dialog, polls, in_dir, dpi, files, opened, runs>>

\* Mutant of process_all_decode_error: the exception is not caught and ends
\* the thread.
process_all_decode_error_uncaught ==
    /\ pc = "file"
    /\ ~heif_skip(files[idx])
    /\ ~files[idx].decodable
    /\ opened' = opened \cup {idx}
    /\ pc' = "done"
    /\ alive' = alive - 1
    /\ UNCHANGED <<envVars, fsVars, worker, stop_flag, uiVars, dialog, polls,
                   in_dir, dpi, files, idx, stats, runs>>

\* The try block raised before canvas.save: the file does not decode.
process_all_decode_error ==
    /\ pc = "file"
    /\ ~heif_skip(files[idx])
    /\ ~files[idx].decodable
    /\ opened' = opened \cup {idx}
    /\ stats' = bump("err")
    /\ log' = log_msg(log, "ERR", files[idx])
    /\ progress' = [progress EXCEPT !.value = idx]
    /\ status_var' = Status("Processing", stats'.ok, stats'.skip, stats'.err)
    /\ idx' = idx + 1
    /\ pc' = "loop"
    /\ UNCHANGED <<envVars, fsVars, worker, alive, stop_flag, buttons, dialog,
                   polls, in_dir, dpi, files, runs>>

\* Mutant of process_all_file: the loop runs over the rglob generator
\* itself, so the folder is looked at again after the file was written.
process_all_file_rescanning ==
    /\ pc = "file"
    /\ ~heif_skip(files[idx])
    /\ files[idx].decodable
    /\ files[idx].encodable
    /\ opened' = opened \cup {idx}
    /\ dest' = save(dest, unique_name(dest, files[idx].stem), files[idx], "saved")
    /\ stats' = bump("ok")
    /\ log' = log_msg(log, "OK", files[idx])
    /\ progress' = [progress EXCEPT !.value = idx]
    /\ status_var' = Status("Processing", stats'.ok, stats'.skip, stats'.err)
    /\ idx' = idx + 1
    /\ pc' = "loop"
    /\ UNCHANGED <<envVars, out_exists, worker, alive, stop_flag, buttons,
                   dialog, polls, in_dir, dpi, runs>>
    /\ files' = scan(in_dir)'

\* The try block ran to its end: canvas.save wrote the file.
process_all_file ==
    /\ pc = "file"
    /\ ~heif_skip(files[idx])
    /\ files[idx].decodable
    /\ files[idx].encodable
    /\ opened' = opened \cup {idx}
    /\ dest' = save(dest, unique_name(dest, files[idx].stem), files[idx], "saved")
    /\ stats' = bump("ok")
    /\ log' = log_msg(log, "OK", files[idx])
    /\ progress' = [progress EXCEPT !.value = idx]
    /\ status_var' = Status("Processing", stats'.ok, stats'.skip, stats'.err)
    /\ idx' = idx + 1
    /\ pc' = "loop"
    /\ UNCHANGED <<envVars, out_exists, worker, alive, stop_flag, buttons,
                   dialog, polls, in_dir, dpi, files, runs>>

\* canvas.save raised: the except clause counts and logs the error.
process_all_save_error(outcome) ==
    /\ pc = "file"
    /\ ~heif_skip(files[idx])
    /\ files[idx].decodable
    /\ ~files[idx].encodable
    /\ opened' = opened \cup {idx}
    /\ dest' = save(dest, unique_name(dest, files[idx].stem), files[idx], outcome)
    /\ stats' = bump("err")
    /\ log' = log_msg(log, "ERR", files[idx])
    /\ progress' = [progress EXCEPT !.value = idx]
    /\ status_var' = Status("Processing", stats'.ok, stats'.skip, stats'.err)
    /\ idx' = idx + 1
    /\ pc' = "loop"
    /\ UNCHANGED <<envVars, out_exists, worker, alive, stop_flag, buttons,
                   dialog, polls, in_dir, dpi, files, runs>>

\* After the loop; process_all returns and the thread ends.
process_all_end ==
    /\ pc = "end"
    /\ status_var' =
         IF script = "photo_formatter" THEN final_status
         ELSE IF ~stop_flag
              THEN Status("Done", stats.ok, stats.skip, stats.err)
              ELSE status_var
    /\ pc' = "done"
    /\ alive' = alive - 1
    /\ UNCHANGED <<envVars, fsVars, worker, stop_flag, buttons, log, progress,
                   dialog, polls, in_dir, dpi, files, idx, stats, opened, runs>>

(* --------------------------- specification ---------------------------- *)

Next ==
    \/ start_busy
    \/ \E itext \in InputTexts : start_bad_folder(itext)
    \/ \E itext \in InputTexts, dtext \in DpiTexts : start_bad_dpi(itext, dtext)
    \/ \E itext \in InputTexts, dtext \in DpiTexts : start_run(itext, dtext)
    \/ dismiss_dialog
    \/ stop
    \/ poll_worker_again
    \/ poll_worker_idle
    \/ process_all_empty
    \/ process_all_scan
    \/ process_all_exhausted
    \/ process_all_break
    \/ process_all_next
    \/ process_all_skip
    \/ process_all_decode_error
    \/ process_all_file
    \/ \E outcome \in SaveFailures : process_all_save_error(outcome)
    \/ process_all_end

Spec == Init /\ [][Next]_vars

\* The application started with the output folder that choose_input fills
\* in: the subfolder output_10x15_jpg of the photos folder, which holds a
\* file of an earlier session.
NestedInit ==
    /\ script \in Scripts
    /\ heif_ok \in BOOLEAN
    /\ tree \in Listings
    /\ out_exists = TRUE /\ dest = ("a_10x15.jpg" :> PreExisting)
    /\ worker = "none"
    /\ alive = 0
    /\ stop_flag = FALSE
    /\ buttons = [start |-> "normal", stop |-> "disabled", open |-> "disabled"]
    /\ status_var = Msg("Select")
    /\ log = <<>>
    /\ progress = [maximum |-> 100, value |-> 0]
    /\ dialog = "none"
    /\ polls = 0
    /\ pc = "none"
    /\ in_dir = <<>>
    /\ dpi = 0
    /\ files = <<>>
    /\ idx = 0
    /\ stats = ZeroStats
    /\ opened = {}
    /\ runs = 0
    /\ nested = TRUE
    /\ geom = [op |-> "idle"]

NestedSpec == NestedInit /\ [][Next]_vars

\* A step of the worker thread, which runs process_all from its first
\* statement to its return.
process_all ==
    \/ process_all_empty
    \/ process_all_scan
    \/ process_all_exhausted
    \/ process_all_break
    \/ process_all_next
    \/ process_all_skip
    \/ process_all_decode_error
    \/ process_all_file
    \/ \E outcome \in SaveFailures : process_all_save_error(outcome)
    \/ process_all_end

\* The operating system keeps scheduling the started thread, and the Tk
\* event loop keeps running the poll_worker callback that root.after queued.
FairSpec ==
    /\ Init /\ [][Next]_vars
    /\ WF_vars(process_all)
    /\ WF_vars(poll_worker_idle)

(* ------------------ the geometry functions on their own --------------- *)

\* Bounds of the inputs the geometry functions are called with.
MaxCm == 15
MaxSide == 6
MaxBadDpi == 2

Lengths == 1..MaxCm

\* Every resolution start accepts, those below it, and MaxBadDpi values
\* that are not positive.
Dpis == (1 - MaxBadDpi)..DPI_MAX

\* Picture and canvas sides: the small ones, and those of the 10x15 cm
\* canvas at 300 DPI and of a 1200x800 picture.
Sides == (1..MaxSide) \cup {800, 1181, 1200, 1772}

\* The two float products of a fit_with_letterbox call: exact, or just short.
Slacks == {0, 1} \X {0, 1}

GeomCalls ==
    [op : {"call"}, fn : {"cm_to_px"}, cm : Lengths, dpi : Dpis]
    \cup [op : {"call"}, fn : {"compute_target_canvas"},
          img_w : 1..MaxSide, img_h : 1..MaxSide, dpi : Dpis]
    \cup [op : {"call"}, fn : {"fit_with_letterbox"},
          src_w : Sides, src_h : Sides, target_w : Sides, target_h : Sides]

\* No application running: one call of a geometry function is pending.
GeomInit ==
    /\ geom \in GeomCalls
    /\ script = "photo_formatter"
    /\ heif_ok = TRUE
    /\ tree = <<>>
    /\ out_exists = FALSE /\ dest = NoFiles
    /\ worker = "none"
    /\ alive = 0
    /\ stop_flag = FALSE
    /\ buttons = [start |-> "normal", stop |-> "disabled", open |-> "disabled"]
    /\ status_var = Msg("Select")
    /\ log = <<>>
    /\ progress = [maximum |-> 100, value |-> 0]
    /\ dialog = "none"
    /\ polls = 0
    /\ pc = "none"
    /\ in_dir = <<>>
    /\ dpi = 0
    /\ files = <<>>
    /\ idx = 0
    /\ stats = ZeroStats
    /\ opened = {}
    /\ runs = 0
    /\ nested = FALSE

\* cm_to_px(cm, dpi) returns; the function has no raise statement and float
\* division by 2.54, multiplication and round never fail on these inputs.
call_cm_to_px ==
    /\ geom.op = "call" /\ geom.fn = "cm_to_px"
    /\ geom' = [op |-> "return", fn |-> "cm_to_px", cm |-> geom.cm,
                dpi |-> geom.dpi, raised |-> FALSE,
                px |-> cm_to_px(geom.cm, geom.dpi)]
    /\ UNCHANGED <<script, heif_ok, tree, nested, fsVars, uiVars, workerVars,
                   worker, alive, stop_flag, dialog, polls, runs>>

\* compute_target_canvas(img_w, img_h, dpi) returns.
call_compute_target_canvas ==
    /\ geom.op = "call" /\ geom.fn = "compute_target_canvas"
    /\ geom' = [op |-> "return", fn |-> "compute_target_canvas",
                img_w |-> geom.img_w, img_h |-> geom.img_h, dpi |-> geom.dpi,
                raised |-> FALSE,
                canvas |-> compute_target_canvas(geom.img_w, geom.img_h, geom.dpi)]
    /\ UNCHANGED <<script, heif_ok, tree, nested, fsVars, uiVars, workerVars,
                   worker, alive, stop_flag, dialog, polls, runs>>

\* fit_with_letterbox(img, target_w, target_h) returns its canvas.
call_fit_with_letterbox(slack) ==
    /\ geom.op = "call" /\ geom.fn = "fit_with_letterbox"
    /\ geom' = [op |-> "return", fn |-> "fit_with_letterbox",
                src_w |-> geom.src_w, src_h |-> geom.src_h,
                target_w |-> geom.target_w, target_h |-> geom.target_h,
                box |-> fit_with_letterbox(geom.src_w, geom.src_h,
                                           geom.target_w, geom.target_h, slack)]
    /\ UNCHANGED <<script, heif_ok, tree, nested, fsVars, uiVars, workerVars,
                   worker, alive, stop_flag, dialog, polls, runs>>

GeomNext ==
    \/ call_cm_to_px
    \/ call_compute_target_canvas
    \/ \E slack \in Slacks : call_fit_with_letterbox(slack)

GeomSpec == GeomInit /\ [][GeomNext]_vars

(* ------------------------ vocabulary of the claims -------------------- *)

Counted == stats.ok + stats.skip + stats.err

CountedNext == stats'.ok + stats'.skip + stats'.err

\* The worker thread takes a step.
WorkerStep == pc' # pc /\ pc # "none" /\ pc # "done"

\* The worker leaves the loop at the cancel check, files left.
BreakStep == pc = "loop" /\ pc' = "end" /\ idx <= total

\* process_all returns after the loop.
ReturnStep == pc = "end" /\ pc' = "done"

\* The loop ended at the cancel check / because every file was iterated.
Cancelled == idx <= total

Exhausted == idx > total

Rows(kind) == { i \in DOMAIN log : log[i].status = kind }

\* The files of this run that were written whole.
Written(f) ==
    \E n \in DOMAIN dest : dest[n].src = name(f) /\ dest[n].complete

(* ------------------------------- claims ------------------------------- *)

\* C1: cancellation acts at file boundaries only.  While a worker is alive
\* the cancel flag, once set, stays set; a file whose cancel check passed is
\* finished as a unit (one log row, one count, progress = its index) even if
\* the flag is set meanwhile; the next cancel check then leaves the loop
\* without touching the destination, the log, the counters, the progress
\* value or any source file; and the run reports Stopped with counts that
\* cover exactly files 1..k (photo_formatter.py reports after the loop,
\* 10x15_Photo_Formatter.py at the break), never Done.
C1_CancelAtFileBoundary ==
    [][ /\ (alive > 0 /\ stop_flag /\ alive' > 0) => stop_flag'
        /\ (pc = "file" /\ stop_flag /\ WorkerStep) =>
              /\ pc' = "loop" /\ idx' = idx + 1
              /\ Len(log') = idx /\ CountedNext = idx /\ progress'.value = idx
        /\ (pc = "loop" /\ stop_flag /\ Cancelled /\ WorkerStep) =>
              /\ BreakStep
              /\ UNCHANGED <<dest, log, stats, progress, opened, idx>>
              /\ script = "10x15_Photo_Formatter" =>
                    status_var' = Status("Stopped", stats.ok, stats.skip, stats.err)
        /\ (ReturnStep /\ Cancelled) =>
              /\ Counted = idx - 1 /\ Len(log) = idx - 1
              /\ progress.value = idx - 1
              /\ opened \subseteq 1..(idx - 1)
              /\ \A n \in DOMAIN dest' : n \in DOMAIN dest /\ dest'[n] = dest[n]
              /\ UNCHANGED <<log, stats, progress, opened>>
              /\ status_var'.kind # "Done"
              /\ script = "photo_formatter" =>
                    status_var' = Status("Stopped", stats.ok, stats.skip, stats.err)
      ]_vars

\* C1 witness: the flag was set while file 1 of several was in progress;
\* the run ended with one file counted and the status Stopped.
C1_Witness ==
    /\ pc = "done" /\ total >= 2 /\ idx = 2 /\ stop_flag
    /\ Len(log) = 1 /\ Counted = 1 /\ stats.ok = 1
    /\ status_var = Status("Stopped", 1, 0, 0)

\* C2: a file that fails to decode or to save costs exactly one error row
\* and one error count, the worker stays alive and moves to the next index;
\* after a passed cancel check the next file is taken up whatever happened
\* before; a decodable, encodable file that is taken up is written whole and
\* logged OK; and a run that iterated every file has one row per file, in
\* order.
C2_ErrorIsolation ==
    [][ /\ (pc = "file" /\ WorkerStep /\ ~heif_skip(files[idx])
              /\ (~files[idx].decodable \/ ~files[idx].encodable)) =>
              /\ stats' = [stats EXCEPT !.err = @ + 1]
              /\ log' = Append(log, [status |-> "ERR", file |-> name(files[idx])])
              /\ pc' = "loop" /\ idx' = idx + 1 /\ alive' = alive
        /\ (pc = "loop" /\ idx <= total /\ ~stop_flag /\ WorkerStep) =>
              pc' = "file" /\ idx' = idx
        /\ (pc = "file" /\ WorkerStep /\ ~heif_skip(files[idx])
              /\ files[idx].decodable /\ files[idx].encodable) =>
              /\ stats' = [stats EXCEPT !.ok = @ + 1]
              /\ log' = Append(log, [status |-> "OK", file |-> name(files[idx])])
              /\ \E n \in DOMAIN dest' \ DOMAIN dest :
                    dest'[n].src = name(files[idx]) /\ dest'[n].complete
              /\ pc' = "loop" /\ idx' = idx + 1
        /\ (ReturnStep /\ Exhausted) =>
              /\ Len(log) = total
              /\ \A i \in 1..total : log[i].file = name(files[i])
      ]_vars

\* C2 witness: a run that completed with an error row followed by an OK row
\* whose file is in the destination.
C2_Witness ==
    /\ pc = "done" /\ total = 2 /\ idx = 3
    /\ log[1].status = "ERR" /\ log[2].status = "OK"
    /\ Written(files[2]) /\ ~Written(files[1])

\* C3: between files and at the end of a run, every file the program put in
\* the destination is a complete output, and it is the output of a file
\* logged OK; a file logged as an error has no file there.
C3_NoPartialOutput ==
    pc \in {"loop", "end", "done"} =>
        /\ \A n \in DOMAIN dest :
              dest[n].src # "pre" =>
                  /\ dest[n].complete
                  /\ \E i \in Rows("OK") : log[i].file = dest[n].src
        /\ \A i \in Rows("ERR") :
              \A n \in DOMAIN dest : dest[n].src # log[i].file

\* The k-th name of a stem, as the specification spells it.
C4_Name(stem, k) ==
    IF k = 0 THEN stem \o "_10x15.jpg"
    ELSE stem \o "_10x15_" \o ToString(k) \o ".jpg"

\* The indexes of a stem's names that a directory holds.
C4_Held(dir, stem) ==
    { k \in 0..Cardinality(DOMAIN dir) : C4_Name(stem, k) \in DOMAIN dir }

\* C4: no step changes or removes a file that is in the destination; a file
\* created for a source is created under a name of that source's stem that
\* was absent; and in a destination holding no file from before the program
\* the name is stem_10x15.jpg for the stem's first file, stem_10x15_<m>.jpg
\* for the one created when m files of the stem are there.
C4_CollisionSafeNaming ==
    [][ /\ \A n \in DOMAIN dest : n \in DOMAIN dest' /\ dest'[n] = dest[n]
        /\ (DOMAIN dest' # DOMAIN dest) =>
              /\ pc = "file"
              /\ \E k \in 0..Cardinality(DOMAIN dest) :
                    /\ DOMAIN dest' = DOMAIN dest \cup {C4_Name(files[idx].stem, k)}
                    /\ C4_Name(files[idx].stem, k) \notin DOMAIN dest
                    /\ dest'[C4_Name(files[idx].stem, k)].src = name(files[idx])
              /\ (\A n \in DOMAIN dest : dest[n].src # "pre") =>
                    DOMAIN dest' = DOMAIN dest \cup
                        {C4_Name(files[idx].stem,
                                 Cardinality(C4_Held(dest, files[idx].stem)))}
      ]_vars

\* C4 witness: two sources with the stem "a" were written side by side, and
\* (second disjunct) a file that was there before the run is still there
\* beside the new one.
C4_Witness ==
    /\ "a_10x15.jpg" \in DOMAIN dest /\ "a_10x15_1.jpg" \in DOMAIN dest
    /\ dest["a_10x15_1.jpg"].src \in {"a.png", "a.jpg"}
    /\ dest["a_10x15.jpg"].src \in {"a.png", "a.jpg", "pre"}
    /\ dest["a_10x15.jpg"].src # dest["a_10x15_1.jpg"].src

\* C5: never two workers alive; and while a worker is alive no step starts
\* another run, replaces self.worker, resets the cancel flag, removes a log
\* row or creates the destination directory.
C5_SingleRun ==
    [][ /\ alive' <= 1
        /\ alive > 0 =>
              /\ alive' <= alive
              /\ runs' = runs /\ worker' = worker
              /\ stop_flag => stop_flag'
              /\ Len(log') >= Len(log) /\ SubSeq(log', 1, Len(log)) = log
              /\ out_exists' = out_exists
              /\ in_dir' = in_dir /\ dpi' = dpi
      ]_vars

\* C5 witness: a worker is alive in the middle of its run, the flag set and
\* the log not empty: the state in which a start must do nothing.
C5_Witness ==
    /\ worker_is_alive /\ ENABLED start_busy
    /\ stop_flag /\ log # <<>> /\ pc = "file"

\* C6: a run that found files ends with one terminal summary from the
\* worker, carrying the final counts: Done when the loop ended because every
\* file was iterated, Stopped when it ended at the cancel check; no other
\* worker step writes a terminal summary.
C6_TerminalStatus ==
    [][ /\ (ReturnStep /\ Exhausted) =>
              status_var' = Status("Done", stats.ok, stats.skip, stats.err)
        /\ (BreakStep /\ script = "10x15_Photo_Formatter") =>
              status_var' = Status("Stopped", stats.ok, stats.skip, stats.err)
        /\ (ReturnStep /\ Cancelled /\ script = "photo_formatter") =>
              status_var' = Status("Stopped", stats.ok, stats.skip, stats.err)
        /\ (ReturnStep /\ Cancelled /\ script = "10x15_Photo_Formatter") =>
              status_var' = status_var
        /\ (WorkerStep /\ ~ReturnStep /\ ~BreakStep) =>
              status_var'.kind \notin {"Done", "Stopped"}
      ]_vars

\* C7: at every file boundary (and while the next file is in progress) the
\* three counters add up to the number of files iterated, which is also the
\* progress value and the number of log rows; each counter equals the number
\* of rows of its kind, row i being file i's; and a loop that iterated every
\* file leaves the sum, and the progress value, at total.
C7_EveryFileCounted ==
    (pc \in {"loop", "file", "end"} \/ (pc = "done" /\ total > 0)) =>
        /\ idx - 1 <= total
        /\ Counted = idx - 1
        /\ progress.value = idx - 1
        /\ progress.maximum = total
        /\ Len(log) = idx - 1
        /\ \A i \in 1..(idx - 1) : log[i].file = name(files[i])
        /\ stats.ok = Cardinality(Rows("OK"))
        /\ stats.skip = Cardinality(Rows("SKIP"))
        /\ stats.err = Cardinality(Rows("ERR"))
        /\ (pc \in {"end", "done"} /\ Exhausted) =>
              Counted = total /\ progress.value = total

\* C7 witness: a completed run of two files, one skipped and one written.
C7_Witness ==
    /\ pc = "done" /\ total = 2 /\ Exhausted
    /\ stats = [ok |-> 1, skip |-> 1, err |-> 0]
    /\ progress = [maximum |-> 2, value |-> 2]

\* A .heic or .heif suffix in the letter cases a listing can hold.
C8_IsHeif(f) == f.suffix \in {".heic", ".heif", ".HEIC", ".HEIF", ".Heic", ".Heif"}

\* C8: without the codec, a file whose suffix is .heic or .heif in any
\* letter case is never opened, leaves the destination as it is, adds one to
\* skipped and nothing to the other counters, gets a SKIP row, and the worker
\* goes on with the next index.
C8_CodecMissingIsSkip ==
    [][ /\ (pc = "file" /\ WorkerStep /\ ~heif_ok /\ C8_IsHeif(files[idx])) =>
              /\ opened' = opened
              /\ dest' = dest
              /\ stats' = [stats EXCEPT !.skip = @ + 1]
              /\ log' = Append(log, [status |-> "SKIP", file |-> name(files[idx])])
              /\ pc' = "loop" /\ idx' = idx + 1 /\ alive' = alive
        /\ ~heif_ok => \A i \in opened' : ~C8_IsHeif(files'[i])
      ]_vars

\* C8 witness: the codec is missing; the upper-case c.HEIC was skipped and
\* the run went on to write the next file.
C8_Witness ==
    /\ ~heif_ok /\ pc = "done" /\ total = 2 /\ Len(log) = 2
    /\ log[1] = [status |-> "SKIP", file |-> "c.HEIC"]
    /\ log[2].status = "OK"
    /\ stats = [ok |-> 1, skip |-> 1, err |-> 0]
    /\ opened = {2}

\* C9: when enumeration finds no eligible file the worker's one step reports
\* that no images were found and ends the thread with total = 0, leaving the
\* destination, the counters, the progress bar, the log and the source files
\* alone; and nothing changes them afterwards while that run is the last.
C9_EmptySource ==
    [][ /\ (pc = "scan" /\ WorkerStep /\ files' = <<>>) =>
              /\ status_var' = Msg("No supported images found.")
              /\ pc' = "done" /\ alive' = alive - 1
              /\ UNCHANGED <<dest, stats, progress, log, opened, idx>>
        /\ (pc = "done" /\ files = <<>> /\ pc' = "done") =>
              UNCHANGED <<dest, stats, progress, log, opened, idx, alive>>
      ]_vars

\* C9 witness: a run over a folder holding only a file the script does not
\* list as supported has ended, nothing counted, logged or written.
C9_Witness ==
    /\ pc = "done" /\ files = <<>> /\ tree # <<>> /\ in_dir = PhotosDir
    /\ alive = 0 /\ runs = 1
    /\ status_var = Msg("No supported images found.")
    /\ stats = ZeroStats /\ log = <<>> /\ opened = {}
    /\ progress = [maximum |-> 100, value |-> 0]

\* An input-folder text that is empty/unset or names no existing directory.
C10_BadFolder(text) == strip(text) = <<>> \/ ~exists_dir(strip(text))

\* A DPI text that is no integer within the running script's bounds.
C10_BadDpi(text) ==
    LET r == int_parse(text)
    IN  \/ ~r.ok
        \/ r.val < 72
        \/ r.val > (IF script = "photo_formatter" THEN 1200 ELSE 600)

\* C10: a start with an input folder text that is empty or names no existing
\* directory, or with a DPI text that is not an integer within the script's
\* bounds, begins no run; and a start that reports an error leaves the
\* destination directory, the cancel flag, the log, the progress bar, the
\* controls and the worker as they were.
C10_PreRunValidation ==
    [][ /\ \A itext \in InputTexts, dtext \in DpiTexts :
              (C10_BadFolder(itext) \/ C10_BadDpi(dtext)) => ~start_run(itext, dtext)
        /\ (dialog = "none" /\ dialog' # "none") =>
              UNCHANGED <<out_exists, dest, stop_flag, log, progress, buttons,
                          worker, alive, pc, runs>>
      ]_vars

(* --------------------- C11: bounded name probing ---------------------- *)

\* The last index the naming step may probe before it must give up (the
\* specification suggests 100000; the code has no such limit, so the value
\* only has to be one the destination can fill).
ProbeBound == 1

\* Every candidate name of the stem, up to the probing bound, is taken.
C11_AllTaken(dir, stem) ==
    \A k \in 0..ProbeBound : C4_Name(stem, k) \in DOMAIN dir

\* C11: when the worker handles a readable file whose every candidate name
\* up to the probing bound is taken, the naming step gives up: nothing is
\* written, the file is counted and logged as one error, and the run goes
\* on to the next file.
C11_BoundedProbing ==
    [][ ( /\ pc = "file"
          /\ WorkerStep
          /\ ~heif_skip(files[idx])
          /\ files[idx].decodable
          /\ C11_AllTaken(dest, files[idx].stem) ) =>
        ( /\ dest' = dest
          /\ stats' = [stats EXCEPT !.err = @ + 1]
          /\ Len(log') = Len(log) + 1
          /\ log'[Len(log')].status = "ERR"
          /\ idx' = idx + 1
          /\ pc' = "loop" )
      ]_vars

(* ------------------ C12: result grows, then is final ------------------- *)

\* The log before the step is the beginning of the log after it.
C12_LogGrows ==
    /\ Len(log') >= Len(log)
    /\ \A i \in DOMAIN log : log'[i] = log[i]

\* C12: while a run is going the log only gets longer; and from a state
\* where the run has ended, a step that is not a successful new start
\* (so also a stop request, and a start that is turned down) leaves the log,
\* the counts and the final summary in the status line as they are.
C12_ResultFinal ==
    [][ /\ (pc \in {"scan", "loop", "file", "end"}) => C12_LogGrows
        /\ (pc = "done" /\ pc' = "done") =>
              UNCHANGED <<log, stats, status_var>>
      ]_vars

(* --------------------------- C13: ordering ---------------------------- *)

\* The place of a file in the listing of the source folder.
C13_Place(f) == CHOOSE k \in DOMAIN tree : tree[k] = f

\* C13: the work list keeps the order of the enumeration; the worker handles
\* the files one at a time in that order (a file step opens files[idx] only,
\* adds the log row of that very file below the rows of the files before it,
\* and moves to the next index); and within a run the progress value never
\* goes down and never exceeds the number of files.
C13_Ordering ==
    [][ /\ (pc = "scan" /\ WorkerStep) =>
              \A i, j \in DOMAIN files' :
                  i < j => C13_Place(files'[i]) < C13_Place(files'[j])
        /\ (pc = "file" /\ WorkerStep) =>
              /\ opened' \subseteq opened \cup {idx}
              /\ opened \subseteq 1..(idx - 1)
              /\ Len(log) = idx - 1
              /\ Len(log') = idx
              /\ \A i \in DOMAIN log : log'[i] = log[i]
              /\ log'[idx].file = name(files[idx])
              /\ idx' = idx + 1
        /\ (pc \in {"loop", "file", "end"}) =>
              /\ progress'.value >= progress.value
              /\ progress'.value <= total
              /\ progress'.maximum = total
      ]_vars

\* C13 witness: a run over two files has ended, the rows of the log are
\* those of the first and of the second file listed, and the progress value
\* stands at two of two.
C13_Witness ==
    /\ pc = "done" /\ total = 2 /\ Len(tree) = 2 /\ Len(log) = 2
    /\ files[1] = tree[1] /\ files[2] = tree[2]
    /\ log[1].file = name(tree[1]) /\ log[2].file = name(tree[2])
    /\ progress = [maximum |-> 2, value |-> 2]

(* ----------------- C14: the letterbox fits the canvas ------------------ *)

\* A call of the named geometry function has returned.
Returned(fn) == geom.op = "return" /\ geom.fn = fn

\* C14: for a picture and a target of sides 1 or more, the canvas that
\* fit_with_letterbox returns has exactly the target size; the resized
\* picture is at least 1 and at most the target on each axis; the offsets
\* are not negative and offset plus resized side stays within the target;
\* and the right (bottom) margin is the left (top) margin or one more.
C14_LetterboxFits ==
    Returned("fit_with_letterbox") =>
        LET b == geom.box IN
        /\ b.canvas_w = geom.target_w /\ b.canvas_h = geom.target_h
        /\ 1 <= b.new_w /\ b.new_w <= geom.target_w
        /\ 1 <= b.new_h /\ b.new_h <= geom.target_h
        /\ b.off_x >= 0 /\ b.off_y >= 0
        /\ b.off_x + b.new_w <= geom.target_w
        /\ b.off_y + b.new_h <= geom.target_h
        /\ (geom.target_w - b.new_w - b.off_x) - b.off_x \in {0, 1}
        /\ (geom.target_h - b.new_h - b.off_y) - b.off_y \in {0, 1}

\* C14 witness: a 1200x800 picture fitted into the 1181x1772 canvas has bars
\* above and below it, the lower one a pixel higher than the upper one.
C14_Witness ==
    /\ Returned("fit_with_letterbox")
    /\ geom.src_w = 1200 /\ geom.src_h = 800
    /\ geom.target_w = 1181 /\ geom.target_h = 1772
    /\ geom.box.new_w = 1181 /\ geom.box.new_h = 787
    /\ geom.box.off_x = 0 /\ geom.box.off_y = 492
    /\ geom.target_h - geom.box.new_h - geom.box.off_y = 493

(* ---------------------- C15: canvas orientation ------------------------ *)

\* n is the whole number nearest to cm / 2.54 * d (no tie exists: 254 * n
\* and 100 * cm * d are both even, 127 is odd).
NearestPx(n, cm, d) ==
    LET diff == 254 * n - 100 * cm * d
    IN  2 * (IF diff >= 0 THEN diff ELSE 0 - diff) <= 254

\* C15: compute_target_canvas returns the lying canvas, 15 cm wide and 10 cm
\* high, when the picture's width is its height or more (a square one
\* included), and the upright canvas, 10 cm wide and 15 cm high, when the
\* width is less than the height.
C15_CanvasOrientation ==
    Returned("compute_target_canvas") =>
        LET c == geom.canvas
            d == geom.dpi
        IN  /\ (geom.img_w >= geom.img_h) =>
                  /\ NearestPx(c[1], 15, d) /\ NearestPx(c[2], 10, d)
                  /\ (d >= 1 => c[1] > c[2])
            /\ (geom.img_w < geom.img_h) =>
                  /\ NearestPx(c[1], 10, d) /\ NearestPx(c[2], 15, d)
                  /\ (d >= 1 => c[1] < c[2])

\* C15 witness: a square picture at 300 DPI got the lying canvas.
C15_Witness ==
    /\ Returned("compute_target_canvas")
    /\ geom.img_w = geom.img_h /\ geom.dpi = 300
    /\ geom.canvas = <<1772, 1181>>

(* ---------------------- C16: output dimensions ------------------------- *)

\* The source file a destination file was made from.
C16_Source(n) == CHOOSE f \in Catalogue : name(f) = dest[n].src

\* The picture, turned as its Orientation tag says, is at least as wide as
\* it is high.
C16_Lying(f) ==
    IF f.orientation \in 5..8 THEN f.h >= f.w ELSE f.w >= f.h

\* The destination files written whole by the program.
C16_Outputs == { n \in DOMAIN dest : dest[n].src # "pre" /\ dest[n].complete }

\* C16: every output written whole was made at a DPI that start accepts and
\* is cm_to_px(15) by cm_to_px(10) pixels for a lying or square picture,
\* cm_to_px(10) by cm_to_px(15) for an upright one, cm_to_px being the whole
\* number nearest to cm / 2.54 * dpi; at 300 DPI that is 1772x1181 and
\* 1181x1772; and a run at 300 DPI over one 1200x800 and one 800x1200
\* readable picture that went through both ends with 2 processed, 0 errors.
C16_Dimensions ==
    /\ \A n \in C16_Outputs :
          LET f == C16_Source(n)
              d == dest[n].dpi
              long  == IF C16_Lying(f) THEN dest[n].w ELSE dest[n].h
              short == IF C16_Lying(f) THEN dest[n].h ELSE dest[n].w
          IN  /\ d >= DPI_MIN /\ d <= DPI_MAX
              /\ long = cm_to_px(15, d) /\ short = cm_to_px(10, d)
              /\ NearestPx(long, 15, d) /\ NearestPx(short, 10, d)
              /\ (d = 300) => (long = 1772 /\ short = 1181)
    /\ ( /\ pc = "done" /\ Exhausted /\ dpi = 300 /\ total = 2
         /\ {name(files[1]), name(files[2])} = {"a.jpg", "a.png"} ) =>
            (stats.ok = 2 /\ stats.err = 0)

\* C16 witness: a run at 300 DPI over a.jpg (1200x800) and a.png (800x1200
\* once turned) has ended with 2 processed and 0 errors, leaving a 1772x1181
\* and a 1181x1772 file.
C16_Witness ==
    /\ pc = "done" /\ dpi = 300 /\ stats.ok = 2 /\ stats.err = 0
    /\ files = <<File("a", ".jpg", TRUE, TRUE, 1200, 800, 1),
                 File("a", ".png", TRUE, TRUE, 1200, 800, 6)>>
    /\ DOMAIN dest = {"a_10x15.jpg", "a_10x15_1.jpg"}
    /\ dest["a_10x15.jpg"].w = 1772 /\ dest["a_10x15.jpg"].h = 1181
    /\ dest["a_10x15_1.jpg"].w = 1181 /\ dest["a_10x15_1.jpg"].h = 1772

(* ------------------ C17: cm_to_px grows with the DPI ------------------- *)

\* C17: for a positive length and positive whole resolutions d1 <= d2,
\* cm_to_px(cm, d1) <= cm_to_px(cm, d2): the value returned for a resolution
\* is at least the value for every smaller positive resolution.
C17_MonotoneInDpi ==
    (Returned("cm_to_px") /\ geom.dpi >= 1) =>
        \A d1 \in 1..geom.dpi : cm_to_px(geom.cm, d1) <= geom.px

\* C17 witness: 15 cm at 300 DPI came to 1772 pixels, more than the 1766 of
\* 299 DPI.
C17_Witness ==
    /\ Returned("cm_to_px") /\ geom.cm = 15 /\ geom.dpi = 300
    /\ geom.px = 1772 /\ cm_to_px(15, 299) = 1766

(* ------------------------- C18: the DPI domain ------------------------- *)

\* The part of C18 about positive resolutions: the call returns, and both
\* sides of a canvas are at least 1.
C18_PositiveDpi ==
    /\ (Returned("cm_to_px") /\ geom.dpi >= 1) => ~geom.raised
    /\ (Returned("compute_target_canvas") /\ geom.dpi >= 1) =>
          ~geom.raised /\ geom.canvas[1] >= 1 /\ geom.canvas[2] >= 1

\* C18: for every positive whole DPI cm_to_px and compute_target_canvas
\* return without failing and both sides of the canvas are at least 1; for
\* every DPI of 0 or less they fail with InvalidInput and return no canvas.
C18_DpiDomain ==
    /\ C18_PositiveDpi
    /\ ((Returned("cm_to_px") \/ Returned("compute_target_canvas"))
            /\ geom.dpi <= 0) => geom.raised

(* ------------------------ C19: run determinism ------------------------- *)

\* What handling one file adds to a destination and to the counts, as a
\* function of the file, the DPI and the codec alone.
C19_Handle(acc, f) ==
    IF C8_IsHeif(f) /\ ~heif_ok
    THEN [acc EXCEPT !.skip = @ + 1]
    ELSE IF ~f.decodable \/ ~f.encodable
    THEN [acc EXCEPT !.err = @ + 1]
    ELSE LET k == CHOOSE k \in 0..Cardinality(DOMAIN acc.dir) :
                      /\ C4_Name(f.stem, k) \notin DOMAIN acc.dir
                      /\ \A j \in 0..(k - 1) : C4_Name(f.stem, j) \in DOMAIN acc.dir
             long  == cm_to_px(15, dpi)
             short == cm_to_px(10, dpi)
             made  == [src |-> name(f), complete |-> TRUE,
                       w |-> IF C16_Lying(f) THEN long ELSE short,
                       h |-> IF C16_Lying(f) THEN short ELSE long,
                       dpi |-> dpi,
                       img |-> IF f.orientation \in 5..8
                               THEN <<f.h, f.w>> ELSE <<f.w, f.h>>,
                       stem |-> IF k = 0 THEN f.stem \o "_10x15"
                                ELSE f.stem \o "_10x15_" \o ToString(k),
                       orientation |-> IF script = "photo_formatter" THEN 1
                                       ELSE f.orientation]
         IN  [acc EXCEPT !.ok = @ + 1,
                         !.dir = (C4_Name(f.stem, k) :> made) @@ acc.dir]

\* The destination and the counts after the first i files of the work list,
\* starting from an empty destination.
RECURSIVE C19_Outcome(_)
C19_Outcome(i) ==
    IF i = 0
    THEN [dir |-> NoFiles, ok |-> 0, skip |-> 0, err |-> 0]
    ELSE C19_Handle(C19_Outcome(i - 1), files[i])

C20_Corrected(f) ==
    IF f.orientation \in 5..8 THEN <<f.h, f.w>> ELSE <<f.w, f.h>>

\* C20: for every file the program wrote, the canvas lies or stands as the
\* corrected (not the stored) width and height say, and the picture that
\* fit_with_letterbox scaled onto it has exactly the corrected width and
\* height: its own second correction did not turn the picture again.
C20_OrientationFirst ==
    \A n \in DOMAIN dest :
        dest[n].src # "pre" =>
            LET c == C20_Corrected(C16_Source(n))
            IN  /\ (dest[n].w > dest[n].h) <=> (c[1] >= c[2])
                /\ dest[n].img = c

\* C20 witness: a.png, stored 1200x800 with Orientation 6, was written on
\* the upright canvas from an 800x1200 picture.
C20_Witness ==
    \E n \in DOMAIN dest :
        /\ dest[n].src = "a.png" /\ dest[n].complete
        /\ dest[n].w < dest[n].h
        /\ dest[n].img = <<800, 1200>>

(* --------------------------- C21: every run ends ----------------------- *)

\* The controls as poll_worker leaves them: start enabled, stop disabled.
C21_Idle ==
    /\ alive = 0
    /\ buttons.start = "normal" /\ buttons.stop = "disabled"

\* C21: with a fairly scheduled worker and poller, every run that was
\* started leads to a state where the worker is no longer alive and the
\* controls are back to idle (start enabled, stop disabled), whether or not
\* stop was requested and also when no file was found.
C21_RunEnds == (alive > 0) ~> C21_Idle

\* C21 witness: a run in which stop was requested has ended, the poller has
\* run its last callback and the controls are idle.
C21_Witness ==
    /\ runs = 1 /\ pc = "done" /\ stop_flag /\ polls = 0
    /\ C21_Idle

(* -------------------- C22: the work list is a snapshot ----------------- *)

\* C22: once the scan has made the work list, no step of the run changes
\* it, so the total and the files to handle are fixed before the first file
\* is handled; and a file the run writes is not in the work list, though the
\* output folder lies inside the photos folder that was enumerated.
C22_Snapshot ==
    [][ (pc \in {"loop", "file", "end"}) =>
          /\ files' = files
          /\ \A n \in DOMAIN dest' \ DOMAIN dest :
                 \A i \in DOMAIN files' : name(files'[i]) # n
      ]_vars

\* C22 witness: with the output folder inside the photos folder, a run has
\* ended whose work list held a.jpg and the a_10x15.jpg that was in the
\* output folder before; it wrote a_10x15_1.jpg and a_10x15_10x15.jpg, and
\* neither is in its work list.
C22_Witness ==
    /\ nested /\ pc = "done" /\ total = 2 /\ stats.ok = 2
    /\ {name(files[1]), name(files[2])} = {"a.jpg", "a_10x15.jpg"}
    /\ DOMAIN dest = {"a_10x15.jpg", "a_10x15_1.jpg", "a_10x15_10x15.jpg"}

(* --------------- C23: the picture fills the canvas one way ------------- *)

\* The part of C23 about the offsets: the picture touches the canvas edge
\* on at least one axis.
C23_OffsetZero ==
    Returned("fit_with_letterbox") =>
        (geom.box.off_x = 0 \/ geom.box.off_y = 0)

\* C23: for picture and target sides of 1 or more, the resized picture is
\* as wide as the canvas or as high as the canvas, and so the offset is zero
\* on at least one axis.
C23_FillsOneAxis ==
    /\ Returned("fit_with_letterbox") =>
          (geom.box.new_w = geom.target_w \/ geom.box.new_h = geom.target_h)
    /\ C23_OffsetZero

====
